---- MODULE Spec2Model ----
(***************************************************************************)
(* Model of skill-security-analyzer/scripts/security_scanner.py: the       *)
(* SecurityScanner class (its finding store, its eight analyzers and the   *)
(* report aggregator) and main(), the orchestrator that scans one bundle   *)
(* or every bundle of a directory.                                         *)
(*                                                                         *)
(* A file's text is a sequence of lines.  Every line is taken from a small *)
(* alphabet of lexemes, and each regular expression of the source is the   *)
(* set of lines of that alphabet in which it has a match (one match per    *)
(* line, starting at column 0 unless a table says otherwise).  A directory *)
(* listing (rglob) is a sequence of files in the file system's order.      *)
(***************************************************************************)
EXTENDS Integers, Sequences, FiniteSets, TLC

VARIABLES
    skill_paths,   \* main: the bundles to scan, as they are on disk
    recursive,     \* main: args.recursive
    idx,           \* main: position of the for loop in skill_paths
    pc,            \* position of the caller of scan() (main, or a library client)
    scanner,       \* the SecurityScanner instance: [skill_path, findings]
    step,          \* position inside scan()
    heap,          \* the list objects: heap[r] is the content of list r
    report,        \* value returned by the last _generate_report
    err,           \* the exception scan() raised, "" when none
    all_reports,   \* the reports the caller holds
    stderr,        \* the diagnostic stream
    output_data,   \* what json.dump(s) wrote
    exit_code,     \* the process's exit status, -1 while running
    hashseed,      \* the interpreter's string hash seed (PYTHONHASHSEED)
    clock,         \* datetime.utcnow()
    calls,         \* library client: completed scan() calls
    output_file,   \* main: whether --output names a file
    returned,      \* history: each held report as it was when scan() returned it
    base           \* history: length of the finding store when scan() was entered

vars == <<skill_paths, recursive, idx, pc, scanner, step, heap, report, err,
          all_reports, stderr, output_data, exit_code, hashseed, clock,
          calls, output_file, returned, base>>

(***************************************************************************)
(* Bounds of the model.                                                    *)
(***************************************************************************)
MaxFiles == 2      \* files in one bundle
MaxBundles == 2    \* bundles of one recursive run
MaxScans == 2      \* scan() calls a library client makes
MaxCount == 6      \* findings of one severity given to the aggregator
MaxLines == 3      \* lines of the script given to the script analyzer
MaxTreeFiles == 2  \* files of the bundle given to the cross-file checks
MaxManifestLines == 5  \* lines of the manifest given to the manifest analyzer

(***************************************************************************)
(* Severity levels (lines 19-23).                                          *)
(***************************************************************************)
CRITICAL == "CRITICAL"
HIGH == "HIGH"
MEDIUM == "MEDIUM"
LOW == "LOW"
Severities == {CRITICAL, HIGH, MEDIUM, LOW}

(***************************************************************************)
(* The alphabet of lines.                                                  *)
(***************************************************************************)
BadByte == "<0xff>"            \* a line that is not valid UTF-8
L_os == "os.system("
L_eval == "eval("
L_get == "requests.get"
L_ssh == "open('~/.ssh/"
L_hex == "bytes.fromhex("
L_key == "API_KEY='a1b2c3d4e5f6"
L_key_b == "API_KEY='z9y8x7w6v5u4"
L_leak == "requests.get(API_KEY='a1b2c3d4e5f6"
L_leak_b == "requests.get(API_KEY='z9y8x7w6v5u4"
L_key_ph == "API_KEY='your_key_here"
L_key_up == "API_KEY='TEST-a1b2c3d4"
L_key_note == "API_KEY='a1b2c3d4e5f6' # test"
L_two == "requests.get(eval("
L_pad ==                        \* a comment line of 94 characters
    "#============================================================================================="
L_imp_os == "import os"
L_imp_two == "import os, reqeusts"
L_http == "http.get(url"
L_imp1 == "import reqeusts"
L_imp2 == "import urlib"
L_tmp == "/tmp/"
L_etc == "/etc/"
L_var == "/var/"
L_up == "open('../x"
L_fence == "'''eval("          \* a code fence (three backquotes) and eval(
L_dash == "---"
L_name == "name: demo"
L_tag == "!!python"
L_api == "Calls the api"
L_title == "# Demo"
ELF == "<7f>ELF"
PE == "MZ<90><00>"
MACHO == "<ca><fe><ba><be>"
PNG == "<89>PNG"

\* re.match/re.search/re.finditer: the lines in which a pattern matches.  A
\* pattern is named by its check and its place in the check's table in the
\* source; IGNORECASE changes nothing for the alphabet above.
Lexemes(pattern) ==
    CASE pattern = "cmd:os.system" -> {L_os}                 \* line 156
      [] pattern = "cmd:subprocess-shell" -> {}              \* line 157
      [] pattern = "cmd:eval" -> {L_eval, L_fence, L_two}    \* line 158
      [] pattern = "cmd:exec" -> {}                          \* line 159
      [] pattern = "cmd:__import__" -> {}                    \* line 160
      [] pattern = "cmd:compile" -> {}                       \* line 161
      [] pattern = "net:requests" -> {L_get, L_two, L_leak, L_leak_b}   \* line 180
      [] pattern = "net:urlopen" -> {}                       \* line 181
      [] pattern = "net:socket" -> {}                        \* line 182
      [] pattern = "net:http.client" -> {}                   \* line 183
      [] pattern = "net:aiohttp" -> {}                       \* line 184
      [] pattern = "cred:ssh" -> {L_ssh}                     \* line 211
      [] pattern = "cred:aws" -> {}                          \* line 212
      [] pattern = "cred:netrc" -> {}                        \* line 213
      [] pattern = "cred:docker" -> {}                       \* line 214
      [] pattern = "cred:environ" -> {}                      \* line 215
      [] pattern = "obf:base64" -> {}                        \* line 234
      [] pattern = "obf:fromhex" -> {L_hex}                  \* line 235
      [] pattern = "obf:rot" -> {}                           \* line 236
      [] pattern = "obf:decompress" -> {}                    \* line 237
      [] pattern = "obf:marshal" -> {}                       \* line 238
      [] pattern = "obf:exec-or-eval" -> {L_eval, L_fence, L_two}   \* line 247
      [] pattern = "secret:api-key" ->                      \* line 267
           {L_key, L_key_b, L_leak, L_leak_b, L_key_ph, L_key_up, L_key_note}
      [] pattern = "secret:password" -> {}                   \* line 268
      [] pattern = "secret:token" -> {}                      \* line 269
      [] pattern = "secret:sk" -> {}                         \* line 270
      [] pattern = "secret:ghp" -> {}                        \* line 271
      [] pattern = "yaml:tag" -> {}                          \* line 92
      [] pattern = "yaml:__proto__" -> {}                    \* line 93
      [] pattern = "yaml:python" -> {L_tag}                  \* line 94
      [] pattern = "yaml:eval" -> {L_eval, L_fence, L_two}   \* line 95
      [] pattern = "yaml:exec" -> {}                         \* line 96
      [] pattern = "network-call" -> {L_get, L_two, L_http, L_leak, L_leak_b}  \* line 334
      [] pattern = "network-words" ->                      \* line 344
           {L_api, L_get, L_two, L_http, L_key, L_key_b, L_leak, L_leak_b,
            L_key_ph, L_key_up, L_key_note}
      [] pattern = "path-traversal" -> {L_tmp, L_up, L_etc, L_var}   \* line 361
      [] pattern = "fenced-code" -> {L_fence}                \* line 388
      [] OTHER -> {}

\* Column at which the match of a pattern starts in a line (0 for all but these).
MatchCol(pattern, line) ==
    IF pattern \in {"cmd:eval", "yaml:eval", "obf:exec-or-eval"} /\ line = L_fence
    THEN 3
    ELSE IF pattern \in {"cmd:eval", "yaml:eval", "obf:exec-or-eval"} /\ line = L_two
    THEN 13
    ELSE IF pattern = "secret:api-key" /\ line \in {L_leak, L_leak_b}
    THEN 13
    ELSE 0

\* Column at which the match ends: match.end() within the line.  The secret
\* patterns stop before the closing quote; the other matches of the alphabet
\* run to the end of the line, but for the call that opens L_two.
MatchEnd(pattern, line) ==
    IF pattern = "secret:api-key" /\ line = L_key_note THEN Len(L_key)
    ELSE IF pattern = "net:requests" /\ line \in {L_two, L_leak, L_leak_b} THEN Len(L_get)
    ELSE Len(line)

\* match.group(0)
matched_text(pattern, line) ==
    SubSeq(line, MatchCol(pattern, line) + 1, MatchEnd(pattern, line))

\* str.lower(), for the letters the alphabet has in upper case
LowerChar(c) ==
    CASE c = "A" -> "a" [] c = "P" -> "p" [] c = "I" -> "i" [] c = "K" -> "k"
      [] c = "E" -> "e" [] c = "Y" -> "y" [] c = "T" -> "t" [] c = "S" -> "s"
      [] c = "M" -> "m" [] c = "Z" -> "z" [] c = "L" -> "l" [] c = "F" -> "f"
      [] c = "N" -> "n" [] c = "G" -> "g" [] c = "D" -> "d" [] c = "C" -> "c"
      [] OTHER -> c

RECURSIVE lower(_)
lower(s) ==
    IF Len(s) = 0 THEN s
    ELSE LowerChar(SubSeq(s, 1, 1)) \o lower(SubSeq(s, 2, Len(s)))

\* sub in s
Contains(s, sub) ==
    \E i \in 1..(Len(s) - Len(sub) + 1) : SubSeq(s, i, i + Len(sub) - 1) = sub

\* The indices of the lines of text in which pattern matches, in text order.
RECURSIVE finditer(_, _, _)
finditer(pattern, text, i) ==
    IF i > Len(text) THEN <<>>
    ELSE (IF text[i] \in Lexemes(pattern) THEN <<i>> ELSE <<>>)
         \o finditer(pattern, text, i + 1)

search(pattern, text) == \E i \in 1..Len(text) : text[i] \in Lexemes(pattern)

\* str.find of a substring in one line: its column, -1 when absent.
FindCol(sub, line) ==
    CASE sub = "../" /\ line = L_up -> 6
      [] sub = "/tmp/" /\ line = L_tmp -> 0
      [] sub = "/etc/" /\ line = L_etc -> 0
      [] OTHER -> -1

\* Offset of the first character of line i in the text (lines joined by a newline).
RECURSIVE Offset(_, _)
Offset(text, i) == IF i <= 1 THEN 0 ELSE Offset(text, i - 1) + Len(text[i - 1]) + 1

\* content.find(sub): offset of the first occurrence, -1 when there is none.
RECURSIVE find(_, _, _)
find(sub, text, i) ==
    IF i > Len(text) THEN -1
    ELSE IF FindCol(sub, text[i]) >= 0 THEN Offset(text, i) + FindCol(sub, text[i])
    ELSE find(sub, text, i + 1)

\* content[:offset].count(newline): the newlines before an offset (a negative
\* offset counts from the end, as Python slices do).
RECURSIVE CountNewlines(_, _, _)
CountNewlines(text, offset, i) ==
    IF i >= Len(text) THEN 0
    ELSE (IF Offset(text, i + 1) - 1 < offset THEN 1 ELSE 0)
         + CountNewlines(text, offset, i + 1)

(***************************************************************************)
(* Files and bundles.  perm is "ok", "denied" (open fails with             *)
(* PermissionError) or "absent" (the path does not exist).  eol says       *)
(* whether the text ends with a newline.  Every file listed is a regular   *)
(* file (is_file() holds).                                                 *)
(***************************************************************************)
File(dir, name, suffix, perm, text, eol) ==
    [dir |-> dir, name |-> name, suffix |-> suffix, perm |-> perm,
     text |-> text, eol |-> eol]

typo_py == File("scripts", "typo.py", ".py", "ok", <<L_imp1, L_imp2, L_get>>, TRUE)
bad_py == File("scripts", "bad.py", ".py", "ok", <<BadByte, L_tmp>>, TRUE)
locked_py == File("scripts", "locked.py", ".py", "denied", <<L_eval>>, TRUE)
run_sh == File("scripts", "run.sh", ".sh", "denied", <<L_eval>>, TRUE)
tool_py == File("scripts", "tool.py", ".py", "ok", <<L_eval, L_hex>>, FALSE)
notes_md == File("references", "notes.md", ".md", "denied", <<L_fence>>, TRUE)
guide_md == File("references", "guide.md", ".md", "ok", <<L_title, L_fence>>, TRUE)
logo_png == File("assets", "logo.png", ".png", "denied", <<ELF>>, FALSE)
icon_png == File("assets", "icon.png", ".png", "ok", <<ELF>>, FALSE)

again_py == File("scripts", "again.py", ".py", "ok", <<L_imp1, L_imp_os, L_imp1>>, TRUE)
pair_py == File("scripts", "pair.py", ".py", "ok", <<L_imp_two>>, TRUE)
fetch_js == File("scripts", "fetch.js", ".js", "ok", <<L_http>>, TRUE)
net_py == File("lib", "net.py", ".py", "ok", <<L_get>>, TRUE)
readme_txt == File("assets", "readme.txt", ".txt", "ok", <<PE>>, FALSE)
photo_jpg == File("assets", "photo.jpg", ".jpg", "ok", <<MACHO>>, FALSE)
real_png == File("assets", "real.png", ".png", "ok", <<PNG>>, FALSE)
tool_bin == File("assets", "tool.bin", ".bin", "ok", <<ELF>>, FALSE)

FileCatalogue ==
    {typo_py, bad_py, locked_py, run_sh, tool_py, notes_md, guide_md, logo_png,
     icon_png}

NoManifest == File("", "SKILL.md", ".md", "absent", <<>>, FALSE)
PlainManifest == File("", "SKILL.md", ".md", "ok", <<L_title>>, TRUE)
DocManifest == File("", "SKILL.md", ".md", "ok", <<L_dash, L_name, L_dash, L_api>>, TRUE)
TagManifest ==
    File("", "SKILL.md", ".md", "ok", <<L_dash, L_tag, L_eval, L_dash, L_title>>, TRUE)
BadManifest == File("", "SKILL.md", ".md", "ok", <<BadByte>>, TRUE)
Manifests == {NoManifest, PlainManifest, DocManifest, TagManifest, BadManifest}

\* The listings of at most n files, no file twice.
RECURSIVE Listings(_)
Listings(n) ==
    IF n = 0 THEN {<<>>}
    ELSE LET shorter == Listings(n - 1) IN
         shorter \cup
         {Append(l, f) : l \in {k \in shorter : Len(k) = n - 1},
                         f \in FileCatalogue}

Distinct(l) == \A i, j \in 1..Len(l) : i # j => l[i] # l[j]

Bundle(exists, manifest, files) ==
    [exists |-> exists, manifest |-> manifest, files |-> files]

MissingBundle == Bundle(FALSE, NoManifest, <<>>)

Bundles ==
    {MissingBundle} \cup
    {Bundle(TRUE, m, l) : m \in Manifests, l \in {k \in Listings(MaxFiles) : Distinct(k)}}

\* The bundles a run of main is given: those of Bundles with at most one file,
\* which is one of the files below.
RunBundles ==
    {b \in Bundles :
        /\ b.manifest \in {NoManifest, DocManifest, BadManifest}
        /\ Len(b.files) <= 1
        /\ \A i \in 1..Len(b.files) : b.files[i] \in {typo_py, locked_py, logo_png, icon_png}}

Seeds == {0, 1}

RelPath(f) == f.dir \o "/" \o f.name
SkillName(i) == "skill" \o ToString(i)
SkillPath(i) == "skills/" \o SkillName(i)   \* str(self.skill_path)

\* Path.exists()
Exists(f) == f.perm # "absent"

\* Path.read_text(encoding='utf-8', errors=...): the text, or the exception.
\* With errors='ignore' the undecodable bytes are dropped.
Dropped(text) == [i \in 1..Len(text) |-> IF text[i] = BadByte THEN "" ELSE text[i]]

read_text(f, errors) ==
    IF f.perm = "absent"
    THEN [text |-> <<>>, err |-> "FileNotFoundError"]
    ELSE IF f.perm # "ok"
    THEN [text |-> <<>>, err |-> "PermissionError"]
    ELSE IF errors = "strict" /\ \E i \in 1..Len(f.text) : f.text[i] = BadByte
    THEN [text |-> <<>>, err |-> "UnicodeDecodeError"]
    ELSE [text |-> Dropped(f.text), err |-> ""]

\* dir.rglob(glob): the files of a directory ("" is the bundle root) whose
\* suffix is in suffixes, in listing order.
rglob(b, dir, suffixes) ==
    SelectSeq(b.files, LAMBDA f : (dir = "" \/ f.dir = dir) /\ f.suffix \in suffixes)

AllSuffixes ==
    {".py", ".sh", ".bash", ".js", ".md", ".png", ".txt", ".pdf", ".jpg", ".bin"}

(***************************************************************************)
(* Findings.  A finding without an evidence key has evidence NoEvidence.   *)
(***************************************************************************)
NoEvidence == "(no evidence key)"

Finding(severity, category, title, description, location, evidence, impact) ==
    [severity |-> severity, category |-> category, title |-> title,
     description |-> description, location |-> location, evidence |-> evidence,
     impact |-> impact]

\* What an analyzer did: the findings it appended and the exception it raised.
Done(add) == [add |-> add, err |-> ""]
Raised(add, e) == [add |-> add, err |-> e]

RECURSIVE Concat(_)
Concat(seqs) == IF seqs = <<>> THEN <<>> ELSE Head(seqs) \o Concat(Tail(seqs))

(***************************************************************************)
(* Evidence extractor and line numbers.                                    *)
(***************************************************************************)
\* content[:match.start()].count(newline) + 1, for a match in line i
line_number(i) == i

\* line[:col] and line[col:]
Before(line, col) == SubSeq(line, 1, col)
After(line, col) == SubSeq(line, col + 1, Len(line))

\* _get_code_context(content, position) for a position at column col of line i,
\* with lines_before = lines_after = 1.  No line of the alphabet has
\* surrounding blanks or reaches 200 characters, so strip() only removes the
\* newline the slice starts with and the result is never truncated.
get_code_context(text, eol, i, col) ==
    LET prev_newline == i > 1                     \* rfind found a newline
        next_newline == i < Len(text) \/ eol      \* find found a newline
        head == IF prev_newline THEN Before(text[i], col) ELSE ""
    IN  IF next_newline THEN head \o After(text[i], col) ELSE head

(***************************************************************************)
(* Script analyzer (lines 121-291).                                        *)
(***************************************************************************)
Rule(pattern, desc) == [pattern |-> pattern, desc |-> desc]

\* for pattern, desc in rules: for match in re.finditer(pattern, content): emit
ForEachMatch(rules, text, emit(_, _)) ==
    Concat([r \in 1..Len(rules) |->
              LET at == finditer(rules[r].pattern, text, 1) IN
              Concat([k \in 1..Len(at) |-> emit(rules[r], at[k])])])

command_injection_patterns ==
    << Rule("cmd:os.system", "os.system() call (unsafe command execution)"),
       Rule("cmd:subprocess-shell", "subprocess with shell=True (command injection risk)"),
       Rule("cmd:eval", "eval() call (code execution)"),
       Rule("cmd:exec", "exec() call (code execution)"),
       Rule("cmd:__import__", "Dynamic import (code loading)"),
       Rule("cmd:compile", "compile() call (dynamic code compilation)") >>

\* Mutant of check_command_injection: re.search in place of re.finditer, only
\* the first match of each pattern is reported.
check_command_injection_first_match(text, eol, file_path) ==
    Concat([r \in 1..Len(command_injection_patterns) |->
        LET rule == command_injection_patterns[r]
            at == finditer(rule.pattern, text, 1)
        IN  IF at = <<>> THEN <<>>
            ELSE << Finding(CRITICAL, "Command Injection", rule.desc,
                            "Found " \o rule.pattern \o " which allows arbitrary code execution",
                            file_path \o ":" \o ToString(line_number(at[1])),
                            get_code_context(text, eol, at[1],
                                             MatchCol(rule.pattern, text[at[1]])),
                            "Attacker could execute arbitrary commands") >>])

check_command_injection(text, eol, file_path) ==
    LET emit(rule, i) ==
          << Finding(CRITICAL, "Command Injection", rule.desc,
                     "Found " \o rule.pattern \o " which allows arbitrary code execution",
                     file_path \o ":" \o ToString(line_number(i)),
                     get_code_context(text, eol, i, MatchCol(rule.pattern, text[i])),
                     "Attacker could execute arbitrary commands") >>
    IN  ForEachMatch(command_injection_patterns, text, emit)

network_patterns ==
    << Rule("net:requests", "HTTP request (potential data exfiltration)"),
       Rule("net:urlopen", "URL open (potential data exfiltration)"),
       Rule("net:socket", "Socket connection (network access)"),
       Rule("net:http.client", "HTTP client (network access)"),
       Rule("net:aiohttp", "Async HTTP library (network access)") >>

check_data_exfiltration(text, eol, file_path) ==
    LET emit(rule, i) ==
          << Finding(HIGH, "Data Exfiltration", rule.desc,
                     "Network request found - verify it's documented and necessary",
                     file_path \o ":" \o ToString(line_number(i)),
                     text[i],       \* line_content.strip(): the whole line
                     "Could send data to external servers") >>
    IN  ForEachMatch(network_patterns, text, emit)

credential_patterns ==
    << Rule("cred:ssh", "Reading SSH keys"),
       Rule("cred:aws", "Reading AWS credentials"),
       Rule("cred:netrc", "Reading .netrc credentials"),
       Rule("cred:docker", "Reading Docker credentials"),
       Rule("cred:environ", "Accessing credential environment variables") >>

check_credential_theft(text, eol, file_path) ==
    LET emit(rule, i) ==
          << Finding(CRITICAL, "Credential Theft", rule.desc,
                     "Attempting to read sensitive credentials",
                     file_path \o ":" \o ToString(line_number(i)),
                     get_code_context(text, eol, i, MatchCol(rule.pattern, text[i])),
                     "Could steal user credentials") >>
    IN  ForEachMatch(credential_patterns, text, emit)

obfuscation_patterns ==
    << Rule("obf:base64", "Base64 decode (potential obfuscation)"),
       Rule("obf:fromhex", "Hex string decode (potential obfuscation)"),
       Rule("obf:rot", "ROT encoding (obfuscation)"),
       Rule("obf:decompress", "Compressed data (potential payload)"),
       Rule("obf:marshal", "Marshal deserialization (code loading)") >>

ObfuscationWindow == 100

\* Mutant of FollowedByExec: the rest of the content is searched, not the
\* first 100 characters of it.
FollowedByExec_unbounded(text, i) ==
    \E k \in (i + 1)..Len(text) : text[k] \in Lexemes("obf:exec-or-eval")

\* re.search of an exec/eval call in content[match.end():match.end()+100], for
\* a match that ends with line i: the call lies in a later line, whole inside
\* the window ("eval(" has 5 characters).
FollowedByExec(text, i) ==
    LET match_end == Offset(text, i) + Len(text[i]) IN
    \E k \in (i + 1)..Len(text) :
        /\ text[k] \in Lexemes("obf:exec-or-eval")
        /\ Offset(text, k) + MatchCol("obf:exec-or-eval", text[k]) + 5
               <= match_end + ObfuscationWindow

check_obfuscation(text, eol, file_path) ==
    LET emit(rule, i) ==
          << Finding(IF FollowedByExec(text, i) THEN CRITICAL ELSE MEDIUM,
                     "Obfuscation", rule.desc,
                     "Code using encoding/compression - may hide malicious intent",
                     file_path \o ":" \o ToString(line_number(i)),
                     get_code_context(text, eol, i, MatchCol(rule.pattern, text[i])),
                     IF FollowedByExec(text, i)
                     THEN "Executing obfuscated code - likely malicious"
                     ELSE "Code obfuscation detected - manual review required") >>
    IN  ForEachMatch(obfuscation_patterns, text, emit)

secret_patterns ==
    << Rule("secret:api-key", "Hardcoded API key"),
       Rule("secret:password", "Hardcoded password/secret"),
       Rule("secret:token", "Hardcoded token"),
       Rule("secret:sk", "Stripe/OpenAI API key pattern"),
       Rule("secret:ghp", "GitHub Personal Access Token") >>

\* any(placeholder in matched_text.lower() for placeholder in [...]) (line 280)
placeholders == {"example", "placeholder", "your_", "xxx", "test"}
IsPlaceholder(text) == \E w \in placeholders : Contains(lower(text), w)

Redacted == "*** (redacted for security)"

\* Mutant of check_hardcoded_secrets: the placeholder words are looked for in
\* the matched text as it is, without lower().
check_hardcoded_secrets_case_sensitive(text, eol, file_path) ==
    LET emit(rule, i) ==
          IF \E w \in placeholders : Contains(matched_text(rule.pattern, text[i]), w)
          THEN <<>>
          ELSE << Finding(HIGH, "Hardcoded Secrets", rule.desc,
                          "Hardcoded credential found in source code",
                          file_path \o ":" \o ToString(line_number(i)),
                          Redacted,
                          "Credentials could be exposed to anyone with access to skill files") >>
    IN  ForEachMatch(secret_patterns, text, emit)

\* Mutant of check_hardcoded_secrets: the evidence is the code context, as in
\* the other checks.
check_hardcoded_secrets_with_context(text, eol, file_path) ==
    LET emit(rule, i) ==
          IF IsPlaceholder(matched_text(rule.pattern, text[i]))
          THEN <<>>
          ELSE << Finding(HIGH, "Hardcoded Secrets", rule.desc,
                          "Hardcoded credential found in source code",
                          file_path \o ":" \o ToString(line_number(i)),
                          get_code_context(text, eol, i, MatchCol(rule.pattern, text[i])),
                          "Credentials could be exposed to anyone with access to skill files") >>
    IN  ForEachMatch(secret_patterns, text, emit)

check_hardcoded_secrets(text, eol, file_path) ==
    LET emit(rule, i) ==
          IF IsPlaceholder(matched_text(rule.pattern, text[i]))
          THEN <<>>                                 \* continue
          ELSE << Finding(HIGH, "Hardcoded Secrets", rule.desc,
                          "Hardcoded credential found in source code",
                          file_path \o ":" \o ToString(line_number(i)),
                          Redacted,
                          "Credentials could be exposed to anyone with access to skill files") >>
    IN  ForEachMatch(secret_patterns, text, emit)

\* _analyze_script(script_path): the findings it appends; it never raises.
analyze_script(f, root) ==
    LET r == read_text(f, "strict")
        relative_path == RelPath(f)
    IN  IF r.err # ""
        THEN << Finding(MEDIUM, "File Access", "Cannot read script: " \o f.name,
                        "Error reading file: " \o r.err,
                        root \o "/" \o RelPath(f), NoEvidence,
                        "Unable to analyze script for security issues") >>
        ELSE check_command_injection(r.text, f.eol, relative_path)
             \o check_data_exfiltration(r.text, f.eol, relative_path)
             \o check_credential_theft(r.text, f.eol, relative_path)
             \o check_obfuscation(r.text, f.eol, relative_path)
             \o check_hardcoded_secrets(r.text, f.eol, relative_path)

ScriptSuffixes == {".py", ".sh", ".bash", ".js"}

\* _scan_scripts (lines 110-119)
scan_scripts(b, root) ==
    LET files == rglob(b, "scripts", ScriptSuffixes) IN
    Done(Concat([k \in 1..Len(files) |-> analyze_script(files[k], root)]))

(***************************************************************************)
(* Manifest analyzers (lines 51-108).                                      *)
(***************************************************************************)
check_skill_structure(b, root) ==
    IF ~Exists(b.manifest)
    THEN Done(<< Finding(CRITICAL, "Structure", "Missing SKILL.md",
                         "Required SKILL.md file not found", root, NoEvidence,
                         "Skill cannot function without SKILL.md") >>)
    ELSE Done(<<>>)

\* re.match of the frontmatter pattern (line 75): the first line is '---' and
\* a later line, after at least one other line, starts with '---'.  The result
\* is the index of the closing line, 0 when there is no match.
FrontmatterEnd(text) ==
    IF Len(text) >= 3 /\ text[1] = L_dash /\ \E k \in 3..Len(text) : text[k] = L_dash
    THEN CHOOSE k \in 3..Len(text) :
            text[k] = L_dash /\ \A j \in 3..(k - 1) : text[j] # L_dash
    ELSE 0

yaml_patterns ==
    << Rule("yaml:tag", "YAML tag directive (potential code execution)"),
       Rule("yaml:__proto__", "Prototype pollution attempt"),
       Rule("yaml:python", "Python object deserialization"),
       Rule("yaml:eval", "Eval function call in YAML"),
       Rule("yaml:exec", "Exec function call in YAML") >>

\* Mutant of scan_yaml_frontmatter: no return after the finding for the missing
\* frontmatter (line 86), the whole text is then searched for the markers.
scan_yaml_frontmatter_no_return(b) ==
    IF ~Exists(b.manifest) THEN Done(<<>>)
    ELSE LET r == read_text(b.manifest, "strict") IN
         IF r.err # "" THEN Raised(<<>>, r.err)
         ELSE LET missing == FrontmatterEnd(r.text) = 0
                  frontmatter == IF missing THEN r.text
                                 ELSE SubSeq(r.text, 2, FrontmatterEnd(r.text) - 1)
              IN  Done((IF missing
                        THEN << Finding(HIGH, "YAML", "Missing YAML frontmatter",
                                        "SKILL.md missing required YAML frontmatter",
                                        "SKILL.md:1", NoEvidence,
                                        "Skill metadata cannot be parsed") >>
                        ELSE <<>>)
                       \o Concat([p \in 1..Len(yaml_patterns) |->
                             IF search(yaml_patterns[p].pattern, frontmatter)
                             THEN << Finding(CRITICAL, "YAML Injection",
                                             "Dangerous YAML pattern: " \o yaml_patterns[p].desc,
                                             "YAML frontmatter contains '"
                                                \o yaml_patterns[p].pattern
                                                \o "' which could execute code",
                                             "SKILL.md frontmatter", NoEvidence,
                                             "Arbitrary code execution during skill parsing") >>
                             ELSE <<>>]))

scan_yaml_frontmatter(b) ==
    IF ~Exists(b.manifest) THEN Done(<<>>)
    ELSE LET r == read_text(b.manifest, "strict") IN
         IF r.err # "" THEN Raised(<<>>, r.err)
         ELSE IF FrontmatterEnd(r.text) = 0
         THEN Done(<< Finding(HIGH, "YAML", "Missing YAML frontmatter",
                              "SKILL.md missing required YAML frontmatter",
                              "SKILL.md:1", NoEvidence,
                              "Skill metadata cannot be parsed") >>)
         ELSE LET frontmatter == SubSeq(r.text, 2, FrontmatterEnd(r.text) - 1) IN
              Done(Concat([p \in 1..Len(yaml_patterns) |->
                     IF search(yaml_patterns[p].pattern, frontmatter)
                     THEN << Finding(CRITICAL, "YAML Injection",
                                     "Dangerous YAML pattern: " \o yaml_patterns[p].desc,
                                     "YAML frontmatter contains '" \o yaml_patterns[p].pattern
                                        \o "' which could execute code",
                                     "SKILL.md frontmatter", NoEvidence,
                                     "Arbitrary code execution during skill parsing") >>
                     ELSE <<>>]))

(***************************************************************************)
(* Reference and asset analyzers (lines 374-427).                          *)
(***************************************************************************)
\* The body of the loop of _scan_references for one file: a failing read is
\* caught and passed over.
scan_reference(f) ==
    LET r == read_text(f, "ignore") IN
    IF r.err # "" THEN <<>>
    ELSE IF f.suffix = ".md" /\ search("fenced-code", r.text)
    THEN << Finding(MEDIUM, "References", "Executable code in reference: " \o f.name,
                    "Reference documentation contains executable code patterns",
                    RelPath(f), NoEvidence,
                    "Verify code examples are safe and intended") >>
    ELSE <<>>

scan_references(b) ==
    LET files == rglob(b, "references", AllSuffixes) IN
    Done(Concat([k \in 1..Len(files) |-> scan_reference(files[k])]))

DisguiseSuffixes == {".txt", ".md", ".pdf", ".png", ".jpg"}
ExecutableHeaders == {ELF, PE, MACHO}

\* f.read(4) on a file opened 'rb'
Header(f) == IF f.text = <<>> THEN "" ELSE f.text[1]

\* The loop of _scan_assets from file k on: open() is not guarded, so a file
\* that cannot be opened ends the loop with the exception.
\* Mutant of scan_assets_from: the header of every asset is compared, whatever
\* its suffix.
RECURSIVE scan_assets_from_any_suffix(_, _, _)
scan_assets_from_any_suffix(files, k, acc) ==
    IF k > Len(files) THEN Done(acc)
    ELSE IF files[k].perm # "ok" THEN Raised(acc, "PermissionError")
    ELSE IF Header(files[k]) \in ExecutableHeaders
    THEN scan_assets_from_any_suffix(files, k + 1,
             Append(acc, Finding(CRITICAL, "Assets",
                                 "Executable disguised as " \o files[k].suffix,
                                 "File " \o files[k].name \o " appears to be executable",
                                 RelPath(files[k]), NoEvidence,
                                 "Malicious executable hiding as innocent file type")))
    ELSE scan_assets_from_any_suffix(files, k + 1, acc)

RECURSIVE scan_assets_from(_, _, _)
scan_assets_from(files, k, acc) ==
    IF k > Len(files) THEN Done(acc)
    ELSE IF files[k].suffix \notin DisguiseSuffixes
    THEN scan_assets_from(files, k + 1, acc)
    ELSE IF files[k].perm # "ok" THEN Raised(acc, "PermissionError")
    ELSE IF Header(files[k]) \in ExecutableHeaders
    THEN scan_assets_from(files, k + 1,
             Append(acc, Finding(CRITICAL, "Assets",
                                 "Executable disguised as " \o files[k].suffix,
                                 "File " \o files[k].name \o " appears to be executable",
                                 RelPath(files[k]), NoEvidence,
                                 "Malicious executable hiding as innocent file type")))
    ELSE scan_assets_from(files, k + 1, acc)

scan_assets(b) == scan_assets_from(rglob(b, "assets", AllSuffixes), 1, <<>>)

(***************************************************************************)
(* Cross-file correlators (lines 293-372).                                 *)
(***************************************************************************)
\* re.findall of the import pattern (line 306): the identifiers of a text
ImportOf(line) ==
    CASE line = L_imp1 -> {"reqeusts"}
      [] line = L_imp2 -> {"urlib"}
      [] line = L_imp_os -> {"os"}
      [] line = L_imp_two -> {"os"}       \* the pattern ends at the first name
      [] OTHER -> {}

Imports(text) == UNION {ImportOf(text[i]) : i \in 1..Len(text)}

\* The first file of a listing, from k on, that read_text(errors='ignore')
\* cannot read; 0 when every file can be read.
RECURSIVE FirstUnreadable(_, _)
FirstUnreadable(files, k) ==
    IF k > Len(files) THEN 0
    ELSE IF read_text(files[k], "ignore").err # "" THEN k
    ELSE FirstUnreadable(files, k + 1)

suspicious_packages ==
    [pkg \in {"reqeusts", "urlib", "subproces"} |->
        CASE pkg = "reqeusts" -> "requests"
          [] pkg = "urlib" -> "urllib"
          [] pkg = "subproces" -> "subprocess"]

\* Iteration over a set of strings: the order is that of the strings' hashes,
\* which the interpreter's hash seed decides.  For the identifiers of the
\* alphabet the two seeds give an order and its reverse.
RECURSIVE Ascending(_)
Ascending(S) ==
    IF S = {} THEN <<>>
    ELSE LET least == CHOOSE x \in S :
                        \A y \in S : x = y \/ x = "os"
                                          \/ (x = "reqeusts" /\ y \notin {"reqeusts", "os"})
                                          \/ (x = "subproces" /\ y = "urlib")
         IN  <<least>> \o Ascending(S \ {least})

Reverse(s) == [i \in 1..Len(s) |-> s[Len(s) + 1 - i]]

SetOrder(S, seed) == IF seed = 0 THEN Ascending(S) ELSE Reverse(Ascending(S))

check_dependencies(b, seed) ==
    LET files == rglob(b, "scripts", {".py"})
        bad == FirstUnreadable(files, 1)
    IN  IF bad # 0 THEN Raised(<<>>, read_text(files[bad], "ignore").err)
        ELSE LET all_imports ==
                     UNION {Imports(read_text(files[k], "ignore").text) : k \in 1..Len(files)}
                 order == SetOrder(all_imports, seed)
             IN  Done(Concat([k \in 1..Len(order) |->
                        IF order[k] \in DOMAIN suspicious_packages
                        THEN << Finding(CRITICAL, "Supply Chain",
                                        "Typosquatting attempt: " \o order[k],
                                        "Package '" \o order[k] \o "' looks like typo of '"
                                           \o suspicious_packages[order[k]] \o "'",
                                        "scripts/", NoEvidence,
                                        "Could be malicious package masquerading as legitimate library") >>
                        ELSE <<>>]))

\* Mutant of check_network_operations: the manifest is read without the test
\* that it exists (line 341).
check_network_operations_unguarded(b) ==
    LET files == rglob(b, "", {".py"})
        bad == FirstUnreadable(files, 1)
    IN  IF bad # 0 THEN Raised(<<>>, read_text(files[bad], "ignore").err)
        ELSE IF \E k \in 1..Len(files) :
                    search("network-call", read_text(files[k], "ignore").text)
        THEN LET r == read_text(b.manifest, "strict") IN
             IF r.err # "" THEN Raised(<<>>, r.err)
             ELSE IF ~search("network-words", r.text)
             THEN Done(<< Finding(HIGH, "Documentation", "Undocumented network access",
                                  "Found files with network operations but no mention in SKILL.md",
                                  "SKILL.md", NoEvidence,
                                  "Users unaware skill makes external requests") >>)
             ELSE Done(<<>>)
        ELSE Done(<<>>)

\* _check_network_operations (lines 327-352)
check_network_operations(b) ==
    LET files == rglob(b, "", {".py"})
        bad == FirstUnreadable(files, 1)
    IN  IF bad # 0 THEN Raised(<<>>, read_text(files[bad], "ignore").err)
        ELSE LET network_count ==
                     Cardinality({k \in 1..Len(files) :
                         search("network-call", read_text(files[k], "ignore").text)})
             IN  IF network_count > 0 /\ Exists(b.manifest)
                 THEN LET r == read_text(b.manifest, "strict") IN
                      IF r.err # "" THEN Raised(<<>>, r.err)
                      ELSE IF ~search("network-words", r.text)
                      THEN Done(<< Finding(HIGH, "Documentation",
                                           "Undocumented network access",
                                           "Found " \o ToString(network_count)
                                              \o " files with network operations but no mention in SKILL.md",
                                           "SKILL.md", NoEvidence,
                                           "Users unaware skill makes external requests") >>)
                      ELSE Done(<<>>)
                 ELSE Done(<<>>)

\* The text as one string has a newline after every line but the last, and
\* after the last when eol.  Newlines in content[:offset], offset >= 0 or -1.
NewlinesBefore(text, eol, offset) ==
    IF offset >= 0 THEN CountNewlines(text, offset, 1)
    ELSE LET total == (Len(text) - 1) + (IF eol THEN 1 ELSE 0)
             last_is_newline == eol \/ (Len(text) > 1 /\ text[Len(text)] = "")
         IN  IF last_is_newline THEN total - 1 ELSE total

\* a or b or c, on integers (0 is the only falsy integer)
PyOr(a, b, c) == IF a # 0 THEN a ELSE IF b # 0 THEN b ELSE c

\* Lines 362-363
traversal_line_num(text, eol) ==
    LET line_num == PyOr(find("../", text, 1), find("/tmp/", text, 1), find("/etc/", text, 1))
    IN  IF line_num # 0 THEN NewlinesBefore(text, eol, line_num) + 1 ELSE 0

\* The loop of _check_file_operations from file k on.
RECURSIVE check_file_operations_from(_, _, _)
check_file_operations_from(files, k, acc) ==
    IF k > Len(files) THEN Done(acc)
    ELSE LET r == read_text(files[k], "ignore") IN
         IF r.err # "" THEN Raised(acc, r.err)
         ELSE IF search("path-traversal", r.text)
         THEN check_file_operations_from(files, k + 1,
                  Append(acc, Finding(HIGH, "File Operations",
                                      "Suspicious file path access",
                                      "File access to paths outside skill directory",
                                      RelPath(files[k]) \o ":"
                                         \o ToString(traversal_line_num(r.text, files[k].eol)),
                                      NoEvidence,
                                      "Could access/modify files outside skill scope")))
         ELSE check_file_operations_from(files, k + 1, acc)

check_file_operations(b) == check_file_operations_from(rglob(b, "", {".py"}), 1, <<>>)

(***************************************************************************)
(* Report aggregator (lines 448-495).                                      *)
(***************************************************************************)
\* Mutant of severity_counts: the loop passes over the first finding.
severity_counts_skip_first(fs) ==
    [s \in Severities |-> Cardinality({i \in 2..Len(fs) : fs[i].severity = s})]

\* severity_counts after the loop of lines 458-459
severity_counts(fs) ==
    [s \in Severities |-> Cardinality({i \in 1..Len(fs) : fs[i].severity = s})]

\* Mutant of overall_risk: the HIGH rungs are tested before the CRITICAL one.
overall_risk_high_first(counts) ==
    IF counts[HIGH] > 3 THEN HIGH
    ELSE IF counts[HIGH] > 0 THEN "MEDIUM-HIGH"
    ELSE IF counts[CRITICAL] > 0 THEN CRITICAL
    ELSE IF counts[MEDIUM] > 5 THEN MEDIUM
    ELSE "LOW"

\* Mutant of overall_risk: the thresholds are met at 3 and at 5.
overall_risk_at_threshold(counts) ==
    IF counts[CRITICAL] > 0 THEN CRITICAL
    ELSE IF counts[HIGH] >= 3 THEN HIGH
    ELSE IF counts[HIGH] > 0 THEN "MEDIUM-HIGH"
    ELSE IF counts[MEDIUM] >= 5 THEN MEDIUM
    ELSE "LOW"

\* Lines 462-476, the risk
overall_risk(counts) ==
    IF counts[CRITICAL] > 0 THEN CRITICAL
    ELSE IF counts[HIGH] > 3 THEN HIGH
    ELSE IF counts[HIGH] > 0 THEN "MEDIUM-HIGH"
    ELSE IF counts[MEDIUM] > 5 THEN MEDIUM
    ELSE "LOW"

\* Lines 462-476, the recommendation
recommendation(counts) ==
    IF counts[CRITICAL] > 0 THEN "REJECT"
    ELSE IF counts[HIGH] > 3 THEN "REVIEW"
    ELSE IF counts[HIGH] > 0 THEN "REVIEW"
    ELSE IF counts[MEDIUM] > 5 THEN "REVIEW"
    ELSE "APPROVE"

summary_of(fs) ==
    LET counts == severity_counts(fs) IN
    [overall_risk |-> overall_risk(counts),
     total_findings |-> Len(fs),
     critical |-> counts[CRITICAL],
     high |-> counts[HIGH],
     medium |-> counts[MEDIUM],
     low |-> counts[LOW],
     recommendation |-> recommendation(counts)]

\* The report: its "findings" is the scanner's own list object (line 492), so
\* the field holds the list's reference, not a copy.
generate_report(i, findings_ref, fs, now) ==
    [skill |-> SkillName(i),
     location |-> SkillPath(i),
     timestamp |-> now,
     scanner_version |-> "1.0",
     summary |-> summary_of(fs),
     findings |-> findings_ref]

NoReport == generate_report(0, 0, <<>>, 0)

(***************************************************************************)
(* SecurityScanner.scan (lines 30-49), one action per step.                *)
(***************************************************************************)
TheBundle == skill_paths[scanner.skill_path]
Root == SkillPath(scanner.skill_path)
Store == heap[scanner.findings]          \* self.findings

\* Mutant of ScanEnter: the path is not checked (lines 34-35 are missing).
ScanEnter_unchecked ==
    /\ step = "scan"
    /\ stderr' = Append(stderr, "Scanning skill at: " \o Root)
    /\ base' = Len(Store)
    /\ err' = ""
    /\ step' = "structure"
    /\ UNCHANGED <<skill_paths, recursive, output_file, idx, pc, scanner, heap,
                   report, all_reports, output_data, exit_code, hashseed, clock,
                   calls, returned>>

\* Lines 32-35: the progress line, then the check of the path.
ScanEnter ==
    /\ step = "scan"
    /\ stderr' = Append(stderr, "Scanning skill at: " \o Root)
    /\ base' = Len(Store)
    /\ IF ~TheBundle.exists
       THEN /\ err' = "Skill path does not exist: " \o Root
            /\ step' = "raised"
       ELSE /\ err' = ""
            /\ step' = "structure"
    /\ UNCHANGED <<skill_paths, recursive, output_file, idx, pc, scanner, heap,
                   report, all_reports, output_data, exit_code, hashseed, clock,
                   calls, returned>>

\* Mutant of Analyze: the findings of the call are put at the front of the
\* store (insert(0, ...) in place of append).
Analyze_at_front(at, next, result) ==
    /\ \E r \in {result} :
          /\ heap' = [heap EXCEPT ![scanner.findings] = r.add \o @]
          /\ IF r.err # ""
             THEN err' = r.err /\ step' = "raised"
             ELSE err' = err /\ step' = next
    /\ UNCHANGED <<skill_paths, recursive, output_file, idx, pc, scanner, report,
                   all_reports, stderr, output_data, exit_code, hashseed, clock,
                   calls, returned, base>>

\* One analyzer call of lines 38-45: its findings are appended to the store;
\* an exception it raises leaves scan().
Analyze(at, next, result) ==
    /\ \E r \in {result} :
          /\ heap' = [heap EXCEPT ![scanner.findings] = @ \o r.add]
          /\ IF r.err # ""
             THEN err' = r.err /\ step' = "raised"
             ELSE err' = err /\ step' = next
    /\ UNCHANGED <<skill_paths, recursive, output_file, idx, pc, scanner, report,
                   all_reports, stderr, output_data, exit_code, hashseed, clock,
                   calls, returned, base>>

CheckSkillStructure ==
    /\ step = "structure"
    /\ Analyze("structure", "yaml", check_skill_structure(TheBundle, Root))
ScanYamlFrontmatter ==
    /\ step = "yaml"
    /\ Analyze("yaml", "scripts", scan_yaml_frontmatter(TheBundle))
ScanScripts ==
    /\ step = "scripts"
    /\ Analyze("scripts", "references", scan_scripts(TheBundle, Root))
ScanReferences ==
    /\ step = "references"
    /\ Analyze("references", "assets", scan_references(TheBundle))
ScanAssets ==
    /\ step = "assets"
    /\ Analyze("assets", "dependencies", scan_assets(TheBundle))
CheckDependencies ==
    /\ step = "dependencies"
    /\ Analyze("dependencies", "network", check_dependencies(TheBundle, hashseed))
CheckNetworkOperations ==
    /\ step = "network"
    /\ Analyze("network", "files", check_network_operations(TheBundle))
CheckFileOperations ==
    /\ step = "files"
    /\ Analyze("files", "report", check_file_operations(TheBundle))

\* Lines 48-49
GenerateReport ==
    /\ step = "report"
    /\ clock' = clock + 1
    /\ report' = generate_report(scanner.skill_path, scanner.findings, Store, clock')
    /\ step' = "returned"
    /\ UNCHANGED <<skill_paths, recursive, output_file, idx, pc, scanner, heap, err,
                   all_reports, stderr, output_data, exit_code, hashseed, calls,
                   returned, base>>

ScanStep ==
    \/ ScanEnter
    \/ CheckSkillStructure
    \/ ScanYamlFrontmatter
    \/ ScanScripts
    \/ ScanReferences
    \/ ScanAssets
    \/ CheckDependencies
    \/ CheckNetworkOperations
    \/ CheckFileOperations
    \/ GenerateReport

\* What the history keeps of a report when scan() returns it.
Returned(r) ==
    [findings |-> heap[r.findings], summary |-> r.summary, list |-> r.findings,
     first |-> base = 0]

(***************************************************************************)
(* main (lines 498-550).                                                   *)
(***************************************************************************)
NoScanner == [skill_path |-> 0, findings |-> 0]
NoOutput == [kind |-> "none", scans |-> <<>>]

\* Sequences over S of the lengths lo..hi
SeqsOf(S, lo, hi) == UNION {[1..n -> S] : n \in lo..hi}

Init ==
    /\ recursive \in BOOLEAN
    /\ output_file \in BOOLEAN
    /\ skill_paths \in (IF recursive THEN SeqsOf(RunBundles, 0, MaxBundles)
                        ELSE SeqsOf(RunBundles, 1, 1))
    /\ hashseed \in Seeds
    /\ idx = 1
    /\ pc = "loop"
    /\ scanner = NoScanner
    /\ step = "none"
    /\ heap = <<>>
    /\ report = NoReport
    /\ err = ""
    /\ all_reports = <<>>
    /\ stderr = <<>>
    /\ output_data = NoOutput
    /\ exit_code = -1
    /\ clock = 0
    /\ calls = 0
    /\ returned = <<>>
    /\ base = 0

\* Lines 517-520: the next bundle, a scanner of its own, the call of scan().
MainScan ==
    /\ pc = "loop"
    /\ idx <= Len(skill_paths)
    /\ heap' = Append(heap, <<>>)                                 \* line 28
    /\ scanner' = [skill_path |-> idx, findings |-> Len(heap) + 1]
    /\ step' = "scan"
    /\ pc' = "scanning"
    /\ UNCHANGED <<skill_paths, recursive, output_file, idx, report, err,
                   all_reports, stderr, output_data, exit_code, hashseed, clock,
                   calls, returned, base>>

SummaryLine(r) ==
    "Skill: " \o r.skill \o " Overall Risk: " \o r.summary.overall_risk
    \o " Recommendation: " \o r.summary.recommendation
    \o " Findings: " \o ToString(r.summary.total_findings)
    \o " (CRITICAL: " \o ToString(r.summary.critical)
    \o ", HIGH: " \o ToString(r.summary.high)
    \o ", MEDIUM: " \o ToString(r.summary.medium)
    \o ", LOW: " \o ToString(r.summary.low) \o ")"

\* Lines 520-533: scan() returned.
MainAppend ==
    /\ pc = "scanning"
    /\ step = "returned"
    /\ all_reports' = Append(all_reports, report)
    /\ returned' = Append(returned, Returned(report))
    /\ stderr' = Append(stderr, SummaryLine(report))
    /\ idx' = idx + 1
    /\ pc' = "loop"
    /\ step' = "none"
    /\ UNCHANGED <<skill_paths, recursive, output_file, scanner, heap, report, err,
                   output_data, exit_code, hashseed, clock, calls, base>>

\* Mutant of MainExcept: the exception is not caught in the loop, the run ends
\* with a traceback and status 1.
MainExcept_uncaught ==
    /\ pc = "scanning"
    /\ step = "raised"
    /\ stderr' = Append(stderr, "Traceback: " \o err)
    /\ exit_code' = 1
    /\ pc' = "done"
    /\ step' = "none"
    /\ UNCHANGED <<skill_paths, recursive, output_file, idx, scanner, heap, report,
                   err, all_reports, output_data, hashseed, clock, calls, returned,
                   base>>

\* Lines 535-537: scan() raised.
MainExcept ==
    /\ pc = "scanning"
    /\ step = "raised"
    /\ stderr' = Append(stderr, "Error scanning " \o Root \o ": " \o err)
    /\ idx' = idx + 1
    /\ pc' = "loop"
    /\ step' = "none"
    /\ err' = ""
    /\ UNCHANGED <<skill_paths, recursive, output_file, scanner, heap, report,
                   all_reports, output_data, exit_code, hashseed, clock, calls,
                   returned, base>>

\* json.dump(s): a report is written with the content its list has now.
Serialised(r) == [r EXCEPT !.findings = heap[r.findings]]

\* Lines 539-550.  output_data is [kind, scans]: kind "scans" is the object
\* {"scans": [...]}, "report" is the one report itself, "empty" is {}.  The
\* file of --output, when given, can be written.
MainOutput ==
    /\ pc = "loop"
    /\ idx > Len(skill_paths)
    /\ output_data' =
          IF recursive
          THEN [kind |-> "scans",
                scans |-> [k \in 1..Len(all_reports) |-> Serialised(all_reports[k])]]
          ELSE IF all_reports # <<>>
          THEN [kind |-> "report", scans |-> <<Serialised(all_reports[1])>>]
          ELSE [kind |-> "empty", scans |-> <<>>]
    /\ stderr' = IF output_file THEN Append(stderr, "Report written to: out.json")
                 ELSE stderr
    /\ exit_code' = 0
    /\ pc' = "done"
    /\ UNCHANGED <<skill_paths, recursive, output_file, idx, scanner, step, heap,
                   report, err, all_reports, hashseed, clock, calls, returned, base>>

Next ==
    \/ MainScan
    \/ ScanStep
    \/ MainAppend
    \/ MainExcept
    \/ MainOutput

Spec == Init /\ [][Next]_vars

\* The loop of main and scan() are straight-line code: every step that can be
\* taken is taken.
FairSpec == Spec /\ WF_vars(Next)

(***************************************************************************)
(* A library client: it holds one scanner at a time over one bundle, calls *)
(* scan() on it any number of times, keeps the reports, and may start over *)
(* with a new scanner in a new interpreter.                                *)
(***************************************************************************)
InitApi ==
    /\ recursive = FALSE
    /\ output_file = FALSE
    /\ skill_paths \in SeqsOf(Bundles, 1, 1)
    /\ hashseed \in Seeds
    /\ idx = 1
    /\ pc = "client"
    /\ scanner = [skill_path |-> 1, findings |-> 1]
    /\ step = "idle"
    /\ heap = << <<>> >>
    /\ report = NoReport
    /\ err = ""
    /\ all_reports = <<>>
    /\ stderr = <<>>
    /\ output_data = NoOutput
    /\ exit_code = -1
    /\ clock = 0
    /\ calls = 0
    /\ returned = <<>>
    /\ base = 0

\* report = scanner.scan()
ApiCall ==
    /\ pc = "client"
    /\ step = "idle"
    /\ calls < MaxScans
    /\ step' = "scan"
    /\ UNCHANGED <<skill_paths, recursive, output_file, idx, pc, scanner, heap,
                   report, err, all_reports, stderr, output_data, exit_code,
                   hashseed, clock, calls, returned, base>>

\* scan() returned: the client keeps the report.
ApiReturn ==
    /\ pc = "client"
    /\ step = "returned"
    /\ all_reports' = Append(all_reports, report)
    /\ returned' = Append(returned, Returned(report))
    /\ calls' = calls + 1
    /\ step' = "idle"
    /\ UNCHANGED <<skill_paths, recursive, output_file, idx, pc, scanner, heap,
                   report, err, stderr, output_data, exit_code, hashseed, clock,
                   base>>

\* scan() raised: the client catches the exception.
ApiCatch ==
    /\ pc = "client"
    /\ step = "raised"
    /\ calls' = calls + 1
    /\ step' = "idle"
    /\ UNCHANGED <<skill_paths, recursive, output_file, idx, pc, scanner, heap,
                   report, err, all_reports, stderr, output_data, exit_code,
                   hashseed, clock, returned, base>>

\* SecurityScanner(skill_path) again, over the same bundle, in an interpreter
\* whose hash seed may differ; the scanner before it has been used.
ApiNewScanner ==
    /\ pc = "client"
    /\ step = "idle"
    /\ Len(heap) <= calls
    /\ calls < MaxScans
    /\ heap' = Append(heap, <<>>)
    /\ scanner' = [skill_path |-> 1, findings |-> Len(heap) + 1]
    /\ hashseed' \in Seeds
    /\ UNCHANGED <<skill_paths, recursive, output_file, idx, pc, step, report, err,
                   all_reports, stderr, output_data, exit_code, clock, calls,
                   returned, base>>

NextApi ==
    \/ ApiCall
    \/ ScanStep
    \/ ApiReturn
    \/ ApiCatch
    \/ ApiNewScanner

SpecApi == InitApi /\ [][NextApi]_vars

(***************************************************************************)
(* The aggregator alone: _generate_report on a finding store that holds    *)
(* any number, up to MaxCount, of findings of each severity.               *)
(***************************************************************************)
Sample(severity) ==
    Finding(severity, "Sample", "sample", "sample", "sample", NoEvidence, "sample")

Repeat(x, n) == [i \in 1..n |-> x]

InitReport ==
    /\ recursive = FALSE
    /\ output_file = FALSE
    /\ skill_paths = <<Bundle(TRUE, DocManifest, <<>>)>>
    /\ hashseed = 0
    /\ idx = 1
    /\ pc = "client"
    /\ scanner = [skill_path |-> 1, findings |-> 1]
    /\ step = "report"
    /\ \E c, h, m, l \in 0..MaxCount :
          heap = << Repeat(Sample(MEDIUM), m) \o Repeat(Sample(CRITICAL), c)
                    \o Repeat(Sample(LOW), l) \o Repeat(Sample(HIGH), h) >>
    /\ report = NoReport
    /\ err = ""
    /\ all_reports = <<>>
    /\ stderr = <<>>
    /\ output_data = NoOutput
    /\ exit_code = -1
    /\ clock = 0
    /\ calls = 0
    /\ returned = <<>>
    /\ base = 0

NextReport == GenerateReport

SpecReport == InitReport /\ [][NextReport]_vars

(***************************************************************************)
(* The script analyzer over one script: a bundle whose scripts directory   *)
(* holds one readable file, of any text of at most MaxLines lines, at the  *)
(* moment scan() calls _scan_scripts.                                      *)
(***************************************************************************)
ScriptAlphabet ==
    {L_eval, L_two, L_ssh, L_hex, L_key, L_key_ph, L_key_up, L_key_note, L_pad}

gen_py(text, eol) == File("scripts", "gen.py", ".py", "ok", text, eol)

InitScript ==
    /\ recursive = FALSE
    /\ output_file = FALSE
    /\ \E text \in SeqsOf(ScriptAlphabet, 0, MaxLines), eol \in BOOLEAN :
          skill_paths = <<Bundle(TRUE, DocManifest, <<gen_py(text, eol)>>)>>
    /\ hashseed = 0
    /\ idx = 1
    /\ pc = "client"
    /\ scanner = [skill_path |-> 1, findings |-> 1]
    /\ step = "scripts"
    /\ heap = << <<>> >>
    /\ report = NoReport
    /\ err = ""
    /\ all_reports = <<>>
    /\ stderr = <<>>
    /\ output_data = NoOutput
    /\ exit_code = -1
    /\ clock = 0
    /\ calls = 0
    /\ returned = <<>>
    /\ base = 0

NextScript == ScanScripts

SpecScript == InitScript /\ [][NextScript]_vars

(***************************************************************************)
(* The asset analyzer and the cross-file checks over a tree: a bundle of   *)
(* at most MaxTreeFiles readable files, at the moment scan() calls         *)
(* _scan_assets.                                                           *)
(***************************************************************************)
TreeCatalogue ==
    {typo_py, again_py, pair_py, fetch_js, net_py, icon_png, readme_txt, photo_jpg,
     real_png, tool_bin}

TreeBundles ==
    {Bundle(TRUE, m, l) :
        m \in {NoManifest, PlainManifest, DocManifest},
        l \in {k \in SeqsOf(TreeCatalogue, 0, MaxTreeFiles) : Distinct(k)}}

InitTree ==
    /\ recursive = FALSE
    /\ output_file = FALSE
    /\ \E b \in TreeBundles : skill_paths = <<b>>
    /\ hashseed \in Seeds
    /\ idx = 1
    /\ pc = "client"
    /\ scanner = [skill_path |-> 1, findings |-> 1]
    /\ step = "assets"
    /\ heap = << <<>> >>
    /\ report = NoReport
    /\ err = ""
    /\ all_reports = <<>>
    /\ stderr = <<>>
    /\ output_data = NoOutput
    /\ exit_code = -1
    /\ clock = 0
    /\ calls = 0
    /\ returned = <<>>
    /\ base = 0

NextTree ==
    \/ ScanAssets
    \/ CheckDependencies
    \/ CheckNetworkOperations
    \/ CheckFileOperations

SpecTree == InitTree /\ [][NextTree]_vars

(***************************************************************************)
(* The manifest analyzer over one manifest: a bundle whose SKILL.md is any *)
(* text of at most MaxManifestLines lines, at the moment scan() calls      *)
(* _scan_yaml_frontmatter.                                                 *)
(***************************************************************************)
ManifestAlphabet == {L_dash, L_name, L_tag, L_eval, L_title}

SKILL_md(text, eol) == File("", "SKILL.md", ".md", "ok", text, eol)

InitManifest ==
    /\ recursive = FALSE
    /\ output_file = FALSE
    /\ \E text \in SeqsOf(ManifestAlphabet, 0, MaxManifestLines), eol \in BOOLEAN :
          skill_paths = <<Bundle(TRUE, SKILL_md(text, eol), <<>>)>>
    /\ hashseed = 0
    /\ idx = 1
    /\ pc = "client"
    /\ scanner = [skill_path |-> 1, findings |-> 1]
    /\ step = "yaml"
    /\ heap = << <<>> >>
    /\ report = NoReport
    /\ err = ""
    /\ all_reports = <<>>
    /\ stderr = <<>>
    /\ output_data = NoOutput
    /\ exit_code = -1
    /\ clock = 0
    /\ calls = 0
    /\ returned = <<>>
    /\ base = 0

NextManifest == ScanYamlFrontmatter

SpecManifest == InitManifest /\ [][NextManifest]_vars

(***************************************************************************)
(* The file-operations check over one Python file: a bundle whose scripts  *)
(* directory holds one readable .py file, of any text of at most MaxLines  *)
(* lines, at the moment scan() calls _check_file_operations.               *)
(***************************************************************************)
PathAlphabet == {L_up, L_tmp, L_etc, L_var, L_imp_os}

InitPaths ==
    /\ recursive = FALSE
    /\ output_file = FALSE
    /\ \E text \in SeqsOf(PathAlphabet, 0, MaxLines), eol \in BOOLEAN :
          skill_paths = <<Bundle(TRUE, DocManifest, <<gen_py(text, eol)>>)>>
    /\ hashseed = 0
    /\ idx = 1
    /\ pc = "client"
    /\ scanner = [skill_path |-> 1, findings |-> 1]
    /\ step = "files"
    /\ heap = << <<>> >>
    /\ report = NoReport
    /\ err = ""
    /\ all_reports = <<>>
    /\ stderr = <<>>
    /\ output_data = NoOutput
    /\ exit_code = -1
    /\ clock = 0
    /\ calls = 0
    /\ returned = <<>>
    /\ base = 0

NextPaths == CheckFileOperations

SpecPaths == InitPaths /\ [][NextPaths]_vars

(***************************************************************************)
(* A run of main over two bundles that differ only in the value of the     *)
(* secret literal of their script: the same lines, with the one secret     *)
(* value in the first bundle and the other in the second.                  *)
(***************************************************************************)
PairAlphabet == {L_key, L_leak, L_eval, L_get, L_key_ph}

OtherSecret(line) ==
    CASE line = L_key -> L_key_b
      [] line = L_leak -> L_leak_b
      [] OTHER -> line

InitPair ==
    /\ recursive = TRUE
    /\ output_file = FALSE
    /\ \E text \in SeqsOf(PairAlphabet, 0, MaxLines), eol \in BOOLEAN :
          skill_paths =
             << Bundle(TRUE, DocManifest, <<gen_py(text, eol)>>),
                Bundle(TRUE, DocManifest,
                       <<gen_py([i \in 1..Len(text) |-> OtherSecret(text[i])], eol)>>) >>
    /\ hashseed = 0
    /\ idx = 1
    /\ pc = "loop"
    /\ scanner = NoScanner
    /\ step = "none"
    /\ heap = <<>>
    /\ report = NoReport
    /\ err = ""
    /\ all_reports = <<>>
    /\ stderr = <<>>
    /\ output_data = NoOutput
    /\ exit_code = -1
    /\ clock = 0
    /\ calls = 0
    /\ returned = <<>>
    /\ base = 0

NextPair ==
    \/ MainScan
    \/ ScanStep
    \/ MainAppend
    \/ MainOutput

SpecPair == InitPair /\ [][NextPair]_vars

(***************************************************************************)
(* Claims.                                                                 *)
(***************************************************************************)
RECURSIVE CountSeverity(_, _)
CountSeverity(fs, severity) ==
    IF fs = <<>> THEN 0
    ELSE (IF Head(fs).severity = severity THEN 1 ELSE 0) + CountSeverity(Tail(fs), severity)

\* The findings the scan in progress has appended to the store.
Emitted == SubSeq(Store, base + 1, Len(Store))

CountCategory(fs, category) == Cardinality({i \in 1..Len(fs) : fs[i].category = category})

\* C1: in every report scan() returns, the four severity counts of the summary
\* add up to total_findings, total_findings is the length of the report's
\* findings list, and each count is the number of findings of that severity in
\* the list.
C1_SummaryCountsMatchFindings ==
    step = "returned" =>
        LET fs == heap[report.findings]
            s == report.summary
        IN  /\ s.critical + s.high + s.medium + s.low = s.total_findings
            /\ s.total_findings = Len(fs)
            /\ s.critical = CountSeverity(fs, CRITICAL)
            /\ s.high = CountSeverity(fs, HIGH)
            /\ s.medium = CountSeverity(fs, MEDIUM)
            /\ s.low = CountSeverity(fs, LOW)

\* C1 witness: scan() has returned a report with findings of three severities.
C1_Witness ==
    /\ step = "returned"
    /\ report.summary.critical > 0
    /\ report.summary.high > 0
    /\ report.summary.medium > 0
    /\ report.summary.total_findings >= 4

\* C2: a report over a finding list with at least one CRITICAL finding has
\* overall_risk CRITICAL and recommendation REJECT, whatever the other counts.
C2_CriticalRejects ==
    (step = "returned" /\ CountSeverity(heap[report.findings], CRITICAL) >= 1) =>
        /\ report.summary.overall_risk = CRITICAL
        /\ report.summary.recommendation = "REJECT"

\* C2 witness: a report over one CRITICAL finding among more than 3 HIGH and
\* more than 5 MEDIUM ones.
C2_Witness ==
    /\ step = "returned"
    /\ CountSeverity(heap[report.findings], CRITICAL) = 1
    /\ CountSeverity(heap[report.findings], HIGH) > 3
    /\ CountSeverity(heap[report.findings], MEDIUM) > 5
    /\ report.summary.recommendation = "REJECT"

\* C3: with no CRITICAL finding the verdict is, first match first: more than 3
\* HIGH gives HIGH / REVIEW; 1 to 3 HIGH gives MEDIUM-HIGH / REVIEW; no HIGH and
\* more than 5 MEDIUM gives MEDIUM / REVIEW; anything else, the empty list
\* included, gives LOW / APPROVE.
C3_Ladder ==
    (step = "returned" /\ CountSeverity(heap[report.findings], CRITICAL) = 0) =>
        LET high == CountSeverity(heap[report.findings], HIGH)
            medium == CountSeverity(heap[report.findings], MEDIUM)
            verdict == <<report.summary.overall_risk, report.summary.recommendation>>
        IN  /\ high > 3 => verdict = <<HIGH, "REVIEW">>
            /\ high \in 1..3 => verdict = <<"MEDIUM-HIGH", "REVIEW">>
            /\ (high = 0 /\ medium > 5) => verdict = <<MEDIUM, "REVIEW">>
            /\ (high = 0 /\ medium <= 5) => verdict = <<"LOW", "APPROVE">>

\* C3 witness: a report over exactly 3 HIGH and 6 MEDIUM findings and no
\* CRITICAL one, judged MEDIUM-HIGH.
C3_Witness ==
    /\ step = "returned"
    /\ CountSeverity(heap[report.findings], CRITICAL) = 0
    /\ CountSeverity(heap[report.findings], HIGH) = 3
    /\ CountSeverity(heap[report.findings], MEDIUM) = 6
    /\ report.summary.overall_risk = "MEDIUM-HIGH"

\* The steps of scan() that come after an analyzer step has been taken.
AfterStructure ==
    {"yaml", "scripts", "references", "assets", "dependencies", "network", "files",
     "report", "returned", "raised"}
AfterScripts ==
    {"references", "assets", "dependencies", "network", "files", "report", "returned"}

\* C4: when the bundle has no manifest the scan emits exactly one Structure
\* finding, which is CRITICAL, and no YAML, YAML Injection or Documentation
\* finding; the missing manifest is never an error (no analyzer fails on the
\* file that is not there), and the scan raises only if some file of the
\* bundle cannot be opened, else it returns its report.
C4_MissingManifest ==
    (TheBundle.exists /\ ~Exists(TheBundle.manifest) /\ step # "idle") =>
        /\ step \in AfterStructure =>
              /\ CountCategory(Emitted, "Structure") = 1
              /\ \A i \in 1..Len(Emitted) :
                    Emitted[i].category = "Structure" => Emitted[i].severity = CRITICAL
        /\ CountCategory(Emitted, "YAML") = 0
        /\ CountCategory(Emitted, "YAML Injection") = 0
        /\ CountCategory(Emitted, "Documentation") = 0
        /\ err # "FileNotFoundError"
        /\ step = "raised" =>
              \E k \in 1..Len(TheBundle.files) : TheBundle.files[k].perm # "ok"

\* C4 witness: a bundle with no manifest and a script that makes a network
\* call has been scanned and its report returned.
C4_Witness ==
    /\ step = "returned"
    /\ ~Exists(TheBundle.manifest)
    /\ \E k \in 1..Len(TheBundle.files) : TheBundle.files[k] = typo_py
    /\ CountCategory(Emitted, "Structure") = 1
    /\ report.summary.total_findings = Len(Emitted)

\* C5 (the claim): any two scans of the same unmodified bundle, each by a
\* scanner of its own, return the same findings in the same order.
C5_Idempotent ==
    \A i, j \in DOMAIN returned :
        (returned[i].first /\ returned[j].first) =>
            returned[i].findings = returned[j].findings

\* C6 (the claim): a report that scan() returned keeps the findings list and
\* the summary it had when it was returned, whatever is done afterwards.
C6_ReportNeverChanges ==
    \A k \in DOMAIN all_reports :
        /\ heap[all_reports[k].findings] = returned[k].findings
        /\ all_reports[k].summary = returned[k].summary

\* Whether scan() raises on a bundle: its path is missing, its manifest cannot
\* be decoded, or a .py file or an asset that is opened cannot be.
ScanFails(b) ==
    \/ ~b.exists
    \/ (Exists(b.manifest) /\ read_text(b.manifest, "strict").err # "")
    \/ \E k \in 1..Len(b.files) :
          /\ b.files[k].perm # "ok"
          /\ \/ b.files[k].suffix = ".py"
             \/ (b.files[k].dir = "assets" /\ b.files[k].suffix \in DisguiseSuffixes)

\* The names of the bundles i..Len(skill_paths) whose scan succeeds, in order.
RECURSIVE SucceededFrom(_)
SucceededFrom(i) ==
    IF i > Len(skill_paths) THEN <<>>
    ELSE (IF ScanFails(skill_paths[i]) THEN <<>> ELSE <<SkillName(i)>>)
         \o SucceededFrom(i + 1)

InStream(line) == \E k \in 1..Len(stderr) : stderr[k] = line

\* What C7 asks of the output once it is written.
PartialResults ==
    /\ output_data.kind = "scans"
    /\ [k \in 1..Len(output_data.scans) |-> output_data.scans[k].skill]
          = SucceededFrom(1)
    /\ \A i \in 1..Len(skill_paths) :
          InStream("Scanning skill at: " \o SkillPath(i))

\* C7: in recursive mode, whichever bundles fail, the run reaches the output
\* step, every bundle has been entered by then, and the scans array holds one
\* report for each bundle whose scan succeeded, in order, and none for a
\* failed one.
C7_PartialResults ==
    /\ [](recursive /\ pc = "done" => PartialResults)
    /\ (recursive => <>(pc = "done"))

\* C7 witness: a recursive run over two bundles, the first of which failed
\* and the second of which is in the output.
C7_Witness ==
    /\ pc = "done"
    /\ recursive
    /\ Len(skill_paths) = 2
    /\ ScanFails(skill_paths[1])
    /\ Len(output_data.scans) = 1
    /\ output_data.scans[1].skill = SkillName(2)

\* What C8 asks of every state for a bundle whose path does not exist.
MissingPathSkipped ==
    \A i \in 1..Len(skill_paths) :
        ~skill_paths[i].exists =>
            /\ scanner.skill_path = i =>
                  (step \in {"scan", "raised", "none"} /\ Store = <<>>)
            /\ idx > i =>
                  InStream("Error scanning " \o SkillPath(i)
                           \o ": Skill path does not exist: " \o SkillPath(i))
            /\ \A k \in 1..Len(all_reports) : all_reports[k].skill # SkillName(i)
            /\ exit_code \in {-1, 0}
            /\ pc = "done" =>
                  /\ output_data.kind # "none"
                  /\ \A k \in 1..Len(output_data.scans) :
                        output_data.scans[k].skill # SkillName(i)

\* C8: for a bundle whose path does not exist, scan() raises before any
\* analyzer step and before any finding is recorded, the error is written to
\* the diagnostic stream, no report of the bundle is held or written, and the
\* run comes to its end with exit status 0.
C8_MissingPath ==
    /\ []MissingPathSkipped
    /\ ((\E i \in 1..Len(skill_paths) : ~skill_paths[i].exists)
          => <>(pc = "done" /\ exit_code = 0))

\* C8 witness: a finished recursive run over a missing bundle and a bundle
\* that is in the output.
C8_Witness ==
    /\ pc = "done"
    /\ recursive
    /\ Len(skill_paths) = 2
    /\ ~skill_paths[1].exists
    /\ Len(output_data.scans) = 1
    /\ exit_code = 0

\* A file that strict reading gives back whole.
Readable(f) == read_text(f, "strict").err = ""

\* Every file of the bundle but file k, and the manifest if there is one, can
\* be read.
OthersReadable(b, k) ==
    /\ Exists(b.manifest) => Readable(b.manifest)
    /\ \A j \in 1..Len(b.files) : j # k => Readable(b.files[j])

LineNumbers == 0..9

\* C9 (the claim): for a script that cannot be read or decoded the scan emits
\* exactly one MEDIUM File Access finding, emits no finding located in that
\* file from any check, and completes with a report.
C9_UnreadableScriptRecovered ==
    \A k \in 1..Len(TheBundle.files) :
        LET f == TheBundle.files[k] IN
        (/\ TheBundle.exists
         /\ f.dir = "scripts" /\ f.suffix \in ScriptSuffixes /\ ~Readable(f)
         /\ OthersReadable(TheBundle, k)) =>
            /\ step # "raised"
            /\ step \in AfterScripts =>
                  Cardinality({i \in 1..Len(Emitted) :
                      /\ Emitted[i].category = "File Access"
                      /\ Emitted[i].severity = MEDIUM
                      /\ Emitted[i].location = Root \o "/" \o RelPath(f)}) = 1
            /\ \A i \in 1..Len(Emitted) :
                  Emitted[i].location \notin
                      {RelPath(f) \o ":" \o ToString(n) : n \in LineNumbers}

\* C10 (the claim): a reference or asset file that cannot be opened adds no
\* finding and raises nothing out of the scan, which returns its report.
C10_UnopenableSkipped ==
    \A k \in 1..Len(TheBundle.files) :
        LET f == TheBundle.files[k] IN
        (/\ TheBundle.exists
         /\ f.dir \in {"references", "assets"} /\ f.perm # "ok"
         /\ OthersReadable(TheBundle, k)) =>
            /\ step # "raised"
            /\ \A i \in 1..Len(Emitted) : Emitted[i].location # RelPath(f)

(***************************************************************************)
(* Claims about the script analyzer, over the one script of SpecScript.    *)
(***************************************************************************)
TheScript == TheBundle.files[1]
ScriptText == TheScript.text
ScriptsDone == step = "references"

\* The findings of a category located at line i of the script.
At(category, i) ==
    {k \in 1..Len(Emitted) :
        /\ Emitted[k].category = category
        /\ Emitted[k].location = RelPath(TheScript) \o ":" \o ToString(i)}

\* The lines in which the text matched by a hardcoded-secret rule holds a
\* placeholder word in some case ('your_' in one, 'TEST' in the other); in
\* L_key_note the word 'test' stands after the match, not in it.
PlaceholderMatches == {L_key_ph, L_key_up}

SecretRulesMatching(line) ==
    {r \in 1..Len(secret_patterns) : line \in Lexemes(secret_patterns[r].pattern)}

C12_EvidenceRedacted ==
    \A k \in 1..Len(Emitted) :
        Emitted[k].category = "Hardcoded Secrets" =>
            Emitted[k].evidence = "*** (redacted for security)"

\* C12 witness: findings for two different secret lines, with the same
\* evidence.
C12_Witness ==
    /\ ScriptsDone
    /\ \E i, j \in 1..Len(ScriptText) :
          /\ ScriptText[i] = L_key
          /\ ScriptText[j] = L_key_note
          /\ \E k \in At("Hardcoded Secrets", i), l \in At("Hardcoded Secrets", j) :
                Emitted[k].evidence = Emitted[l].evidence

\* The exec/eval calls of the script: the lines that hold one and the column
\* at which it starts, from the name to the opening parenthesis.
CallLines == {L_eval, L_two}
CallStart(k) == Offset(ScriptText, k) + (IF ScriptText[k] = L_two THEN 13 ELSE 0)
CallLength == Len("eval(")

\* The offset at which the obfuscation match of line i ends (the end of the line).
ObfuscationEnd(i) == Offset(ScriptText, i) + Len(ScriptText[i])

\* A call starts within the 100 characters after the match of line i.
CallStartsWithin(i) ==
    \E k \in 1..Len(ScriptText) :
        /\ ScriptText[k] \in CallLines
        /\ CallStart(k) >= ObfuscationEnd(i)
        /\ CallStart(k) < ObfuscationEnd(i) + 100

\* A call lies, from its name to its parenthesis, within those 100 characters.
CallLiesWithin(i) ==
    \E k \in 1..Len(ScriptText) :
        /\ ScriptText[k] \in CallLines
        /\ CallStart(k) >= ObfuscationEnd(i)
        /\ CallStart(k) + CallLength <= ObfuscationEnd(i) + 100

\* One Obfuscation finding for each match of an obfuscation rule, CRITICAL and
\* 'likely malicious' when followed(i) holds for its line, MEDIUM and 'manual
\* review required' when not.
ObfuscationVerdicts(followed(_)) ==
    ScriptsDone =>
        \A i \in 1..Len(ScriptText) :
            IF ScriptText[i] = L_hex
            THEN /\ Cardinality(At("Obfuscation", i)) = 1
                 /\ \A k \in At("Obfuscation", i) :
                       IF followed(i)
                       THEN /\ Emitted[k].severity = CRITICAL
                            /\ Emitted[k].impact = "Executing obfuscated code - likely malicious"
                       ELSE /\ Emitted[k].severity = MEDIUM
                            /\ Emitted[k].impact
                                  = "Code obfuscation detected - manual review required"
            ELSE At("Obfuscation", i) = {}

\* C13 (the claim): each match of an obfuscation rule emits one Obfuscation
\* finding, CRITICAL if and only if an exec/eval call starts within the 100
\* characters after the end of the match, MEDIUM otherwise.
C13_EscalatedIfCallStartsInWindow == ObfuscationVerdicts(CallStartsWithin)

\* C13 (amended): each match of an obfuscation rule emits one Obfuscation
\* finding, CRITICAL if and only if an exec/eval call lies wholly (name and
\* opening parenthesis) within the 100 characters after the end of the match,
\* MEDIUM otherwise.
C13_EscalatedIfCallInWindow == ObfuscationVerdicts(CallLiesWithin)

\* C13 witness: a match followed by a call that starts inside the window and
\* ends outside it, and is reported MEDIUM for manual review.
C13_Witness ==
    /\ ScriptsDone
    /\ \E i \in 1..Len(ScriptText) :
          /\ ScriptText[i] = L_hex
          /\ CallStartsWithin(i) /\ ~CallLiesWithin(i)
          /\ \E k \in At("Obfuscation", i) : Emitted[k].severity = MEDIUM

\* The patterns of the five rule families of the script analyzer.
ScriptPatterns ==
    {t[r].pattern : r \in 1..5,
                    t \in {command_injection_patterns \o <<>>, network_patterns,
                           credential_patterns, obfuscation_patterns, secret_patterns}}
    \cup {command_injection_patterns[6].pattern}

\* The rules that report a line: those that match in it, but for a
\* hardcoded-secret rule whose match is a placeholder (C11).
RulesReporting(line) ==
    {p \in ScriptPatterns :
        /\ line \in Lexemes(p)
        /\ ~(line \in PlaceholderMatches /\ p \in {secret_patterns[r].pattern : r \in 1..5})}

AssetsDone == step \in {"dependencies", "network", "files", "report"}
DependenciesDone == step \in {"network", "files", "report"}
NetworkDone == step \in {"files", "report"}

FilesOf(b) == {b.files[k] : k \in 1..Len(b.files)}

\* The identifiers a line of Python imports.
ImportedBy(line) ==
    CASE line = L_imp1 -> {"reqeusts"}
      [] line = L_imp2 -> {"urlib"}
      [] line = L_imp_os -> {"os"}
      [] line = L_imp_two -> {"os", "reqeusts"}
      [] OTHER -> {}

\* The identifiers imported by the Python scripts of the bundle.
ImportedIdentifiers ==
    UNION {UNION {ImportedBy(f.text[i]) : i \in 1..Len(f.text)} :
              f \in {g \in FilesOf(TheBundle) : g.dir = "scripts" /\ g.suffix = ".py"}}

TypoKeys == {"reqeusts", "urlib", "subproces"}
CanonicalOf(p) ==
    CASE p = "reqeusts" -> "requests" [] p = "urlib" -> "urllib"
      [] p = "subproces" -> "subprocess"

SupplyChainFor(p) ==
    {k \in 1..Len(Emitted) :
        /\ Emitted[k].category = "Supply Chain"
        /\ Emitted[k].title = "Typosquatting attempt: " \o p}

\* C14: when the dependency correlator has run there is exactly one CRITICAL
\* Supply Chain finding for every key of the typo mapping that some script
\* imports, naming its canonical package, and no other Supply Chain finding.
C14_OnePerTypoIdentifier ==
    DependenciesDone =>
        /\ \A p \in TypoKeys :
              IF p \in ImportedIdentifiers
              THEN /\ Cardinality(SupplyChainFor(p)) = 1
                   /\ \A k \in SupplyChainFor(p) :
                         /\ Emitted[k].severity = CRITICAL
                         /\ Emitted[k].description
                              = "Package '" \o p \o "' looks like typo of '"
                                  \o CanonicalOf(p) \o "'"
              ELSE SupplyChainFor(p) = {}
        /\ \A k \in 1..Len(Emitted) :
              Emitted[k].category = "Supply Chain" =>
                  \E p \in TypoKeys : k \in SupplyChainFor(p)

\* A line holds a network call; a manifest line holds one of the four words.
HasNetworkCall(line) == Contains(line, "requests.get") \/ Contains(line, "http.get")
MentionsNetwork(line) ==
    \E w \in {"network", "http", "api", "request"} : Contains(lower(line), w)

\* The files of the whole bundle that contain a network call.
NetworkFiles ==
    {f \in FilesOf(TheBundle) : \E i \in 1..Len(f.text) : HasNetworkCall(f.text[i])}

Documentation == {k \in 1..Len(Emitted) : Emitted[k].category = "Documentation"}

\* C15: when the network documentation check has run there is exactly one
\* HIGH Documentation finding, stating the number of files of the bundle
\* that contain a network call, if that number is not zero, the manifest
\* exists and its text has none of the four words; there is none otherwise.
C15_UndocumentedNetworkCounted ==
    NetworkDone =>
        IF /\ NetworkFiles # {}
           /\ Exists(TheBundle.manifest)
           /\ ~\E i \in 1..Len(TheBundle.manifest.text) :
                  MentionsNetwork(TheBundle.manifest.text[i])
        THEN /\ Cardinality(Documentation) = 1
             /\ \A k \in Documentation :
                   /\ Emitted[k].severity = HIGH
                   /\ Emitted[k].description
                        = "Found " \o ToString(Cardinality(NetworkFiles))
                            \o " files with network operations but no mention in SKILL.md"
        ELSE Documentation = {}

AssetsAt(f) ==
    {k \in 1..Len(Emitted) :
        Emitted[k].category = "Assets" /\ Emitted[k].location = RelPath(f)}

\* C16: when the asset analyzer has run, an asset named .txt, .md, .pdf,
\* .png or .jpg has exactly one CRITICAL Assets finding if its first four
\* bytes are the ELF, PE or Mach-O magic number and none otherwise; an asset
\* of another extension has none; there is no other Assets finding.
C16_DisguisedExecutables ==
    AssetsDone =>
        /\ \A f \in FilesOf(TheBundle) :
              f.dir = "assets" =>
                  IF /\ f.suffix \in {".txt", ".md", ".pdf", ".png", ".jpg"}
                     /\ f.text[1] \in {ELF, PE, MACHO}
                  THEN /\ Cardinality(AssetsAt(f)) = 1
                       /\ \A k \in AssetsAt(f) : Emitted[k].severity = CRITICAL
                  ELSE AssetsAt(f) = {}
        /\ \A k \in 1..Len(Emitted) :
              Emitted[k].category = "Assets" =>
                  \E f \in FilesOf(TheBundle) : f.dir = "assets" /\ k \in AssetsAt(f)

\* C16 witness: a Windows executable named .txt beside a genuine PNG, one
\* Assets finding in all.
C16_Witness ==
    /\ AssetsDone
    /\ readme_txt \in FilesOf(TheBundle)
    /\ real_png \in FilesOf(TheBundle)
    /\ Cardinality(AssetsAt(readme_txt)) = 1
    /\ CountCategory(Emitted, "Assets") = 1

(***************************************************************************)
(* Claims about the manifest analyzer, over the manifests of SpecManifest. *)
(***************************************************************************)
ManifestText == TheBundle.manifest.text
YamlDone == step = "scripts"

\* The text opens with a delimiter line and has a second one after it.
LeadingDelimiters ==
    /\ Len(ManifestText) >= 2
    /\ ManifestText[1] = "---"
    /\ \E k \in 2..Len(ManifestText) : ManifestText[k] = "---"

\* C17: when the manifest exists and its text does not open with the pair of
\* delimiter lines, the manifest analyzer emits exactly one YAML finding, of
\* severity HIGH, and no YAML Injection finding, whatever the lines of the
\* text are.
C17_MissingFrontmatter ==
    (YamlDone /\ Exists(TheBundle.manifest) /\ ~LeadingDelimiters) =>
        /\ CountCategory(Emitted, "YAML") = 1
        /\ \A k \in 1..Len(Emitted) :
              Emitted[k].category = "YAML" => Emitted[k].severity = HIGH
        /\ CountCategory(Emitted, "YAML Injection") = 0

\* C17 witness: a title, then a delimited block with a deserialization tag
\* and an eval call: the delimiters are there, not at the start, and the one
\* finding is the YAML finding.
C17_Witness ==
    /\ YamlDone
    /\ ~LeadingDelimiters
    /\ Len(ManifestText) = 5
    /\ ManifestText[1] = L_title
    /\ ManifestText[2] = "---"
    /\ ManifestText[3] = L_tag
    /\ ManifestText[4] = L_eval
    /\ ManifestText[5] = "---"
    /\ Len(Emitted) = 1
    /\ Emitted[1].category = "YAML"

\* The line that closes the frontmatter block, when the text opens with a
\* delimiter line and has a later one after at least one line of block.
BlockEnd ==
    CHOOSE k \in 3..Len(ManifestText) :
        ManifestText[k] = "---" /\ \A j \in 3..(k - 1) : ManifestText[j] # "---"
HasBlock ==
    /\ Len(ManifestText) >= 3
    /\ ManifestText[1] = "---"
    /\ \E k \in 3..Len(ManifestText) : ManifestText[k] = "---"

\* The marker matches of a line: the deserialization tag, the eval call.
MarkerMatches(line) == IF line \in {L_tag, L_eval} THEN 1 ELSE 0

RECURSIVE MarkerMatchesIn(_, _, _)
MarkerMatchesIn(text, from, to) ==
    IF from > to THEN 0
    ELSE MarkerMatches(text[from]) + MarkerMatchesIn(text, from + 1, to)

\* C18: when the manifest has a frontmatter block, the YAML Injection
\* findings are as many as the marker matches in the block, all CRITICAL;
\* matches outside the block are not counted.
C18_OnePerMarkerMatch ==
    (YamlDone /\ HasBlock) =>
        /\ CountCategory(Emitted, "YAML Injection")
             = MarkerMatchesIn(ManifestText, 2, BlockEnd - 1)
        /\ \A k \in 1..Len(Emitted) :
              Emitted[k].category = "YAML Injection" => Emitted[k].severity = CRITICAL

(***************************************************************************)
(* Claims about the finding store, over the scans of SpecApi.              *)
(***************************************************************************)
\* The analyzer that emits the findings of a category.
AnalyzerOf(category) ==
    CASE category = "Structure" -> "structure"
      [] category \in {"YAML", "YAML Injection"} -> "yaml"
      [] category \in {"Command Injection", "Data Exfiltration", "Credential Theft",
                       "Obfuscation", "Hardcoded Secrets", "File Access"} -> "scripts"
      [] category = "References" -> "references"
      [] category = "Assets" -> "assets"
      [] category = "Supply Chain" -> "dependencies"
      [] category = "Documentation" -> "network"
      [] category = "File Operations" -> "files"

\* The fixed order of the analyzers, between the entry of scan() and the
\* construction of the report.
AnalyzerOrder ==
    <<"scan", "structure", "yaml", "scripts", "references", "assets", "dependencies",
      "network", "files", "report", "returned">>
PlaceOf(s) == CHOOSE k \in 1..Len(AnalyzerOrder) : AnalyzerOrder[k] = s

IsPrefix(s, t) == Len(s) <= Len(t) /\ SubSeq(t, 1, Len(s)) = s

\* A step of a scan keeps every finding list as a prefix of what it becomes,
\* adds to the store only findings of the analyzer whose turn it is, and
\* passes to the next analyzer of the order, or leaves scan() by an exception.
StoreStep ==
    /\ \A h \in DOMAIN heap : IsPrefix(heap[h], heap'[h])
    /\ scanner' = scanner =>
          \A k \in (Len(Store) + 1)..Len(Store') : AnalyzerOf(Store'[k].category) = step
    /\ (step' # step /\ step \in {AnalyzerOrder[k] : k \in 1..10}) =>
          \/ step' = AnalyzerOrder[PlaceOf(step) + 1]
          \/ step' = "raised"

\* The findings of the scan stand in the order of the analyzers that found
\* them, and the report that scan() returns lists the store as it is.
DetectionOrder ==
    /\ \A i, j \in 1..Len(Emitted) :
          i < j => PlaceOf(AnalyzerOf(Emitted[i].category))
                     <= PlaceOf(AnalyzerOf(Emitted[j].category))
    /\ step = "returned" => heap[report.findings] = Store

\* C20: during a scan the store is append-only and the analyzers run in the
\* one fixed order: after every step the findings recorded before it are an
\* unchanged prefix of the findings after it, and the report lists the
\* findings in the order of detection.
C20_AppendOnlyInDetectionOrder == []DetectionOrder /\ [][StoreStep]_vars

\* C20 witness: a returned report whose findings are not in severity order:
\* a MEDIUM finding of the script analyzer stands before a CRITICAL finding
\* of a later analyzer.
C20_Witness ==
    /\ step = "returned"
    /\ \E i, j \in 1..Len(Emitted) :
          /\ i < j
          /\ Emitted[i].severity = MEDIUM
          /\ Emitted[j].severity = CRITICAL
          /\ AnalyzerOf(Emitted[i].category) # AnalyzerOf(Emitted[j].category)
          /\ heap[report.findings][base + i] = Emitted[i]
          /\ heap[report.findings][base + j] = Emitted[j]

(***************************************************************************)
(* Claims about the evidence extractor, over the script of SpecScript.     *)
(***************************************************************************)
\* The categories whose evidence is the result of _get_code_context.
ContextCategories == {"Command Injection", "Credential Theft", "Obfuscation"}

\* C21: the evidence extractor treats a missing boundary as the start or the
\* end of the content, so the snippet covers the character at the match
\* offset: it runs from the start of the line of the match (the start of the
\* content when no newline precedes) to the end of that line (the end of the
\* content when no newline follows).  No line of the alphabet has blanks
\* around it or 200 characters, so the evidence is that line.
C21_SnippetCoversMatch ==
    ScriptsDone =>
        \A i \in 1..Len(ScriptText) :
            \A category \in ContextCategories :
                \A k \in At(category, i) : Emitted[k].evidence = ScriptText[i]

(***************************************************************************)
(* Claims about the file-operations check, over the file of SpecPaths.     *)
(***************************************************************************)
FilesDone == step = "report"

\* The 1-based line of the first occurrence of a substring in the script, 0
\* when it does not occur.
FirstLineWith(sub) ==
    IF \E i \in 1..Len(ScriptText) : Contains(ScriptText[i], sub)
    THEN CHOOSE i \in 1..Len(ScriptText) :
            /\ Contains(ScriptText[i], sub)
            /\ \A j \in 1..(i - 1) : ~Contains(ScriptText[j], sub)
    ELSE 0

\* The line of the first '../', else of the first '/tmp/', else of the first
\* '/etc/', else 0.
TraversalLine ==
    IF FirstLineWith("../") # 0 THEN FirstLineWith("../")
    ELSE IF FirstLineWith("/tmp/") # 0 THEN FirstLineWith("/tmp/")
    ELSE FirstLineWith("/etc/")

\* The path-traversal check flags the file: an open call with '../' in its
\* argument, or one of the three directories.
Flagged ==
    \E i \in 1..Len(ScriptText) :
        \/ Contains(ScriptText[i], "open(") /\ Contains(ScriptText[i], "../")
        \/ \E d \in {"/tmp/", "/etc/", "/var/"} : Contains(ScriptText[i], d)

FileOperations == {k \in 1..Len(Emitted) : Emitted[k].category = "File Operations"}

\* C22: a .py file flagged by the path-traversal check has exactly one HIGH
\* File Operations finding, located at the line of the first '../', else of
\* the first '/tmp/', else of the first '/etc/', and at line 0 only when none
\* of the three occurs; a file that is not flagged has none.
C22_TraversalLine ==
    FilesDone =>
        IF Flagged
        THEN /\ Cardinality(FileOperations) = 1
             /\ \A k \in FileOperations :
                   /\ Emitted[k].severity = HIGH
                   /\ Emitted[k].location
                        = RelPath(TheScript) \o ":" \o ToString(TraversalLine)
        ELSE FileOperations = {}

(***************************************************************************)
(* Claims about the findings of one scan, over the scans of SpecApi.       *)
(***************************************************************************)
\* C23: the finding store is empty when a scan starts its first analyzer,
\* and the report that scan() returns lists exactly the findings detected
\* during that call, none of an earlier scan.
C23_ReportOfThisScanOnly ==
    /\ step = "structure" => Store = <<>>
    /\ step = "returned" => heap[report.findings] = Emitted

(***************************************************************************)
(* Claims about the secrecy of hardcoded secrets, over the two bundles of  *)
(* SpecPair.                                                               *)
(***************************************************************************)
\* The evidence fields of the findings of the k-th report of the run.
EvidenceOf(k) ==
    [n \in 1..Len(heap[all_reports[k].findings]) |->
        heap[all_reports[k].findings][n].evidence]

\* C24: the text of a hardcoded secret does not reach the report through a
\* finding: the reports of two bundles that differ only in the value of a
\* secret literal have the same evidence fields, finding by finding.
C24_EvidenceIndependentOfSecret ==
    pc = "done" => EvidenceOf(1) = EvidenceOf(2)

====
